---- MODULE Spec2Model ----
(***************************************************************************)
(* The two sample programs of the repository as state machines.            *)
(*                                                                         *)
(*   MultiCamera    the multi-camera benchmark driver: 5 warmup rounds and *)
(*                  30 measured rounds of one std::async capture task per  *)
(*                  camera, then the statistics.                           *)
(*   CaptureHalcon  the single-camera program: 25 iterations of capture,   *)
(*                  zividToHalconPointCloud, savePointCloud.               *)
(*                                                                         *)
(* Spec runs either program (Init chooses which).  SpecConvert runs        *)
(* zividToHalconPointCloud alone, statement by statement, on every grid    *)
(* within the bounds.  SpecStats runs the statistics stage of the driver   *)
(* alone on every table of measured times within the bounds.               *)
(*                                                                         *)
(* Vectors, tuples and grids are functions on 0..n-1, so that every index  *)
(* of the model is the index the source uses.                              *)
(***************************************************************************)
EXTENDS Integers, FiniteSets, Sequences, TLC

VARIABLES
    program,      \* which main() runs: "MultiCamera", "CaptureHalcon", or "none"
    pc,           \* position of main()
    exc,          \* the exception propagating in main(): "none", "std::exception", "HException"
    cerr,         \* the lines written to std::cerr
    keypress,     \* whether std::cin.get() has returned
    exitStatus,   \* <<>> while main() runs, then <<the status it returned>>
    numCameras,   \* cameras.size()
    round,        \* the i of the round loops of the driver
    cam,          \* the position of the inner loop over the cameras
    futures,      \* the vectors warmupTimes, times2D and times of std::future
    inFlight,     \* per camera, how many tasks are executing a capture on it
    allTimes,     \* allTimes[i][j]
    allTimes2D,   \* allTimes2D[i][j]
    iter,         \* the i of the capture loop of CaptureHalcon
    frame,        \* the point cloud of the frame captured in this iteration
    model3D,      \* the HObjectModel3D converted in this iteration
    fileWrites,   \* how many times Zivid3D.ply has been written
    cv,           \* the locals of zividToHalconPointCloud (SpecConvert)
    st            \* the locals of the statistics stage (SpecStats)

vars == <<program, pc, exc, cerr, keypress, exitStatus, numCameras, round, cam,
          futures, inFlight, allTimes, allTimes2D, iter, frame, model3D,
          fileWrites, cv, st>>

processVars == <<exc, cerr, keypress, exitStatus>>
driverVars == <<numCameras, round, cam, futures, inFlight, allTimes, allTimes2D>>
halconVars == <<iter, frame, model3D, fileWrites>>

(***************************************************************************)
(* Bounds of the model and constants of the programs.                      *)
(***************************************************************************)
MaxCameras == 2

NumWarmup == 5

numFrames3D == 30

NumCaptures == 25

EXIT_SUCCESS == 0

EXIT_FAILURE == 1

(***************************************************************************)
(* 0-based vectors.                                                        *)
(***************************************************************************)
Size(v) == Cardinality(DOMAIN v)

EmptyVec == <<>>

EmplaceBack(v, x) == [k \in 0..Size(v) |-> IF k < Size(v) THEN v[k] ELSE x]

Cameras == 0..(numCameras - 1)

(***************************************************************************)
(* The times a task measured stand for the capture they were measured on:  *)
(* which function ran, in which round, on which camera.  MeasuredTimes{}   *)
(* is the value-initialized struct the result tables start with.           *)
(***************************************************************************)
ZeroTimes == [kind |-> "zero", run |-> 0, camera |-> 0]

TimesOf(kind, i, j) == [kind |-> kind, run |-> i, camera |-> j]

\* std::async(std::launch::async, f, std::ref(camera), ...): a new thread runs
\* f on the camera at once; the future shares its state.  blocked says that
\* the capture call of the task will never come back.
AsyncFuture(kind, i, j) ==
    [camera |-> j, state |-> "running", blocked |-> FALSE,
     value |-> TimesOf(kind, i, j)]

NoFutures == [warmupTimes |-> EmptyVec, times2D |-> EmptyVec, times |-> EmptyVec]

\* future.wait() and future.get() return once the task has finished.
Finished(f) == f.state # "running"

\* A destructor that lets go of the task instead of joining it.
DestructorDetaches(f) == TRUE

\* ~future() of a future obtained from std::async blocks until the task has
\* finished; a future that was waited on or read is destroyed at once.
DestructorReturns(f) == f.state # "running"

AllDestructible == \A v \in DOMAIN futures : \A k \in DOMAIN futures[v] :
                       DestructorReturns(futures[v][k])

\* std::vector<std::vector<T>> table(numFrames3D, {cameras.size(), T{}})
NewTable == [i \in 0..(numFrames3D - 1) |-> [j \in Cameras |-> ZeroTimes]]

\* The write with the column forgotten: table[i][0] = value.
StoreTimesFirstColumn(table, i, j, value) == [table EXCEPT ![i][0] = value]

\* table[i][j] = value
StoreTimes(table, i, j, value) == [table EXCEPT ![i][j] = value]

\* A loop over the cameras that leaves the last camera out.
LoopSkipsLastCamera == cam + 1 >= numCameras

\* A loop over the cameras that stops after the first camera.
LoopOverFirstCameraDone == cam >= 1

\* for(auto &camera : cameras) has visited every camera
LoopOverCamerasDone == cam = numCameras

(***************************************************************************)
(* The initial state of the multi-camera driver: main() is entered, no     *)
(* camera is connected yet.                                                *)
(***************************************************************************)
ProcessInit ==
    /\ exc = "none"
    /\ cerr = <<>>
    /\ keypress = FALSE
    /\ exitStatus = <<>>

DriverIdle ==
    /\ numCameras = 0
    /\ round = 0
    /\ cam = 0
    /\ futures = NoFutures
    /\ inFlight = <<>>
    /\ allTimes = <<>>
    /\ allTimes2D = <<>>

HalconIdle ==
    /\ iter = 0
    /\ frame = "none"
    /\ model3D = "none"
    /\ fileWrites = 0

ConvertIdle == cv = [pc |-> "idle"]

StatsIdle == st = [pc |-> "idle"]

InitMultiCamera ==
    /\ program = "MultiCamera"
    /\ pc = "connect"
    /\ ProcessInit
    /\ DriverIdle
    /\ HalconIdle
    /\ ConvertIdle
    /\ StatsIdle

(***************************************************************************)
(* The multi-camera driver.                                                *)
(***************************************************************************)
\* zivid.cameras(), camera.connect() for each, and the two settings files read.
Connect ==
    /\ program = "MultiCamera"
    /\ pc = "connect"
    /\ \E n \in 0..MaxCameras :
          /\ numCameras' = n
          /\ inFlight' = [j \in 0..(n - 1) |-> 0]
    /\ pc' = "warmupLaunch"
    /\ UNCHANGED <<program, processVars, round, cam, futures, allTimes, allTimes2D,
                   halconVars, cv, st>>

\* The camera library throws while the cameras are found and connected or the
\* settings are loaded.
ConnectThrows ==
    /\ program = "MultiCamera"
    /\ pc = "connect"
    /\ exc' = "std::exception"
    /\ pc' = "catch"
    /\ UNCHANGED <<program, cerr, keypress, exitStatus, driverVars, halconVars, cv, st>>

\* One std::async of the launch loop of vector v; kind is the task function.
Launch(v, kind) ==
    /\ cam < numCameras
    /\ futures' = [futures EXCEPT ![v] = EmplaceBack(@, AsyncFuture(kind, round, cam))]
    /\ inFlight' = [inFlight EXCEPT ![cam] = @ + 1]
    /\ cam' = cam + 1
    /\ UNCHANGED <<program, pc, processVars, numCameras, round, allTimes, allTimes2D,
                   halconVars, cv, st>>

\* The launch loop has visited every camera: on to the loop that collects.
LaunchDone(next) ==
    /\ LoopOverCamerasDone
    /\ pc' = next
    /\ cam' = 0
    /\ UNCHANGED <<program, processVars, numCameras, round, futures, inFlight,
                   allTimes, allTimes2D, halconVars, cv, st>>

WarmupLaunch ==
    /\ program = "MultiCamera"
    /\ pc = "warmupLaunch"
    /\ Launch("warmupTimes", "captureInThread")

WarmupLaunchDone ==
    /\ program = "MultiCamera"
    /\ pc = "warmupLaunch"
    /\ LaunchDone("warmupWait")

\* future.wait(): returns when the task has finished, whether it returned or
\* threw; the stored exception stays in the shared state.
WarmupWait ==
    /\ program = "MultiCamera"
    /\ pc = "warmupWait"
    /\ cam < numCameras
    /\ Finished(futures.warmupTimes[cam])
    /\ cam' = cam + 1
    /\ UNCHANGED <<program, pc, processVars, numCameras, round, futures, inFlight,
                   allTimes, allTimes2D, halconVars, cv, st>>

\* End of a warmup iteration: warmupTimes is destroyed; after the last one the
\* result tables are constructed.
WarmupRoundEnd ==
    /\ program = "MultiCamera"
    /\ pc = "warmupWait"
    /\ LoopOverCamerasDone
    /\ AllDestructible
    /\ futures' = NoFutures
    /\ cam' = 0
    /\ IF round + 1 < NumWarmup
          THEN /\ round' = round + 1
               /\ pc' = "warmupLaunch"
               /\ UNCHANGED <<allTimes, allTimes2D>>
          ELSE /\ round' = 0
               /\ pc' = IF 0 < numFrames3D THEN "launch2D" ELSE "statistics"
               /\ allTimes' = NewTable
               /\ allTimes2D' = NewTable
    /\ UNCHANGED <<program, processVars, numCameras, inFlight, halconVars, cv, st>>

Launch2D ==
    /\ program = "MultiCamera"
    /\ pc = "launch2D"
    /\ Launch("times2D", "capture2DInThread")

Launch2DDone ==
    /\ program = "MultiCamera"
    /\ pc = "launch2D"
    /\ LaunchDone("get2D")

\* const auto camTimes2D = times2D[j].get(); allTimes2D[i][j] = camTimes2D;
Get2D ==
    /\ program = "MultiCamera"
    /\ pc = "get2D"
    /\ cam < numCameras
    /\ futures.times2D[cam].state = "ready"
    /\ allTimes2D' = StoreTimes(allTimes2D, round, cam, futures.times2D[cam].value)
    /\ futures' = [futures EXCEPT !.times2D[cam].state = "retrieved"]
    /\ cam' = cam + 1
    /\ UNCHANGED <<program, pc, processVars, numCameras, round, inFlight, allTimes,
                   halconVars, cv, st>>

\* times2D[j].get() rethrows the exception the task ended with.
Get2DThrows ==
    /\ program = "MultiCamera"
    /\ pc = "get2D"
    /\ cam < numCameras
    /\ futures.times2D[cam].state = "exception"
    /\ exc' = "std::exception"
    /\ pc' = "unwind"
    /\ UNCHANGED <<program, cerr, keypress, exitStatus, driverVars, halconVars, cv, st>>

Get2DDone ==
    /\ program = "MultiCamera"
    /\ pc = "get2D"
    /\ LaunchDone("launch3D")

Launch3D ==
    /\ program = "MultiCamera"
    /\ pc = "launch3D"
    /\ Launch("times", "captureInThread")

Launch3DDone ==
    /\ program = "MultiCamera"
    /\ pc = "launch3D"
    /\ LaunchDone("get3D")

\* const auto camTimes = times[j].get(); allTimes[i][j] = camTimes;
Get3D ==
    /\ program = "MultiCamera"
    /\ pc = "get3D"
    /\ cam < numCameras
    /\ futures.times[cam].state = "ready"
    /\ allTimes' = StoreTimes(allTimes, round, cam, futures.times[cam].value)
    /\ futures' = [futures EXCEPT !.times[cam].state = "retrieved"]
    /\ cam' = cam + 1
    /\ UNCHANGED <<program, pc, processVars, numCameras, round, inFlight, allTimes2D,
                   halconVars, cv, st>>

Get3DThrows ==
    /\ program = "MultiCamera"
    /\ pc = "get3D"
    /\ cam < numCameras
    /\ futures.times[cam].state = "exception"
    /\ exc' = "std::exception"
    /\ pc' = "unwind"
    /\ UNCHANGED <<program, cerr, keypress, exitStatus, driverVars, halconVars, cv, st>>

\* End of a measured iteration: times and times2D are destroyed.
RoundEnd ==
    /\ program = "MultiCamera"
    /\ pc = "get3D"
    /\ LoopOverCamerasDone
    /\ AllDestructible
    /\ futures' = NoFutures
    /\ cam' = 0
    /\ round' = round + 1
    /\ pc' = IF round + 1 < numFrames3D THEN "launch2D" ELSE "statistics"
    /\ UNCHANGED <<program, processVars, numCameras, inFlight, allTimes, allTimes2D,
                   halconVars, cv, st>>

\* The exception leaves the loop body: times and times2D are destroyed on the
\* way to the handler, which blocks until their tasks have finished.
Unwind ==
    /\ program = "MultiCamera"
    /\ pc = "unwind"
    /\ AllDestructible
    /\ futures' = NoFutures
    /\ pc' = "catch"
    /\ UNCHANGED <<program, processVars, numCameras, round, cam, inFlight,
                   allTimes, allTimes2D, halconVars, cv, st>>

\* A capture task returns its times.
TaskReturns(v, k) ==
    /\ program = "MultiCamera"
    /\ k \in DOMAIN futures[v]
    /\ futures[v][k].state = "running"
    /\ ~futures[v][k].blocked
    /\ futures' = [futures EXCEPT ![v][k].state = "ready"]
    /\ inFlight' = [inFlight EXCEPT ![futures[v][k].camera] = @ - 1]
    /\ UNCHANGED <<program, pc, processVars, numCameras, round, cam, allTimes,
                   allTimes2D, halconVars, cv, st>>

\* A capture task ends with an exception of the camera library, which the
\* shared state of its future keeps.
TaskThrows(v, k) ==
    /\ program = "MultiCamera"
    /\ k \in DOMAIN futures[v]
    /\ futures[v][k].state = "running"
    /\ ~futures[v][k].blocked
    /\ futures' = [futures EXCEPT ![v][k].state = "exception"]
    /\ inFlight' = [inFlight EXCEPT ![futures[v][k].camera] = @ - 1]
    /\ UNCHANGED <<program, pc, processVars, numCameras, round, cam, allTimes,
                   allTimes2D, halconVars, cv, st>>

\* A capture task stops in a call of the camera library that never comes back:
\* nothing in the task or in main() bounds the time of camera.capture() or
\* frame.pointCloud(), and nothing cancels a task.
TaskBlocks(v, k) ==
    /\ program = "MultiCamera"
    /\ k \in DOMAIN futures[v]
    /\ futures[v][k].state = "running"
    /\ ~futures[v][k].blocked
    /\ futures' = [futures EXCEPT ![v][k].blocked = TRUE]
    /\ UNCHANGED <<program, pc, processVars, numCameras, round, cam, inFlight,
                   allTimes, allTimes2D, halconVars, cv, st>>

\* "Generating statistics" to the end of the try block; main() then ends
\* without a return statement, which returns 0.
Statistics ==
    /\ program = "MultiCamera"
    /\ pc = "statistics"
    /\ pc' = "exited"
    /\ exitStatus' = <<EXIT_SUCCESS>>
    /\ UNCHANGED <<program, exc, cerr, keypress, driverVars, halconVars, cv, st>>

\* catch(const std::exception &e): the message, the prompt, then cin.get().
MultiCatch ==
    /\ program = "MultiCamera"
    /\ pc = "catch"
    /\ exc = "std::exception"
    /\ cerr' = Append(cerr, "Error: " \o exc)
    /\ pc' = "waitKey"
    /\ UNCHANGED <<program, exc, keypress, exitStatus, driverVars, halconVars, cv, st>>

\* std::cin.get() returns; return EXIT_FAILURE.
MultiKeyPressed ==
    /\ program = "MultiCamera"
    /\ pc = "waitKey"
    /\ keypress' = TRUE
    /\ exitStatus' = <<EXIT_FAILURE>>
    /\ pc' = "exited"
    /\ UNCHANGED <<program, exc, cerr, driverVars, halconVars, cv, st>>

MultiCameraNext ==
    \/ Connect
    \/ ConnectThrows
    \/ WarmupLaunch
    \/ WarmupLaunchDone
    \/ WarmupWait
    \/ WarmupRoundEnd
    \/ Launch2D
    \/ Launch2DDone
    \/ Get2D
    \/ Get2DThrows
    \/ Get2DDone
    \/ Launch3D
    \/ Launch3DDone
    \/ Get3D
    \/ Get3DThrows
    \/ RoundEnd
    \/ Unwind
    \/ \E v \in {"warmupTimes", "times2D", "times"} : \E k \in 0..(MaxCameras - 1) :
          TaskReturns(v, k)
    \/ \E v \in {"warmupTimes", "times2D", "times"} : \E k \in 0..(MaxCameras - 1) :
          TaskThrows(v, k)
    \/ \E v \in {"warmupTimes", "times2D", "times"} : \E k \in 0..(MaxCameras - 1) :
          TaskBlocks(v, k)
    \/ Statistics
    \/ MultiCatch
    \/ MultiKeyPressed

(***************************************************************************)
(* zividToHalconPointCloud.                                                *)
(*                                                                         *)
(* A float is NaN or a number.  A point cloud is a grid of height rows and *)
(* width columns of points, normals and colors, addressed (row, column).   *)
(***************************************************************************)
MaxWidth == 2

MaxHeight == 2

MaxFrameWidth == 2

MaxFrameHeight == 1

NaN == [nan |-> TRUE, v |-> 0]

Num(v) == [nan |-> FALSE, v |-> v]

isnan(f) == f.nan

XYZ(a, b, c) == [x |-> a, y |-> b, z |-> c]

\* Zivid::PointXYZ::isNaN() of the camera library: some coordinate is NaN.
isNaN(point) == isnan(point.x) \/ isnan(point.y) \/ isnan(point.z)

\* The values of a point or of a normal in a grid built by hand: none, all, or
\* only the y coordinate NaN.
SyntheticXYZ == {XYZ(NaN, NaN, NaN), XYZ(Num(1), Num(1), Num(1)), XYZ(Num(1), NaN, Num(1))}

\* The values of a point or of a normal in a frame of the camera: a cell is
\* reconstructed or it is not.
CameraXYZ == {XYZ(NaN, NaN, NaN), XYZ(Num(1), Num(1), Num(1))}

\* The color of a cell records the cell: red its row, green its column.
ColorOf(i, j) == [r |-> i, g |-> j, b |-> 255, a |-> 255]

Cells(w, h) == (0..(h - 1)) \X (0..(w - 1))

PointClouds(maxW, maxH, values) ==
    UNION { UNION { { [width |-> w, height |-> h, pointsXYZ |-> p, normalsXYZ |-> n,
                       colorsRGBA |-> [c \in Cells(w, h) |-> ColorOf(c[1], c[2])]] :
                          p \in [Cells(w, h) -> values], n \in [Cells(w, h) -> values] } :
                    w \in 1..maxW } : h \in 1..maxH }

\* In a frame of the camera a cell without a point has no normal either.
CameraPointClouds ==
    { g \in PointClouds(MaxFrameWidth, MaxFrameHeight, CameraXYZ) :
        \A c \in Cells(g.width, g.height) : isNaN(g.pointsXYZ[c]) => isNaN(g.normalsXYZ[c]) }

\* int numberOfValidPoints = std::count_if(..., !point.isNaN()) over the
\* width*height points.
NumberOfValidPoints(pointCloud) ==
    Cardinality({c \in Cells(pointCloud.width, pointCloud.height) :
                    ~isNaN(pointCloud.pointsXYZ[c])})

\* HTuple: tuple[index] = value on an empty tuple makes a tuple of index+1
\* elements whose other elements are zero. A negative index is refused with an
\* HTupleAccessException, which is an HException.
CanResize(index) == index >= 0

Resized(index, value, zero) == [k \in 0..index |-> IF k = index THEN value ELSE zero]

\* An index that the raw array behind DArr() or LArr() holds.
InArray(tuple, index) == index \in DOMAIN tuple

EmptyTuples ==
    [PointsX |-> <<>>, PointsY |-> <<>>, PointsZ |-> <<>>,
     NormalsX |-> <<>>, NormalsY |-> <<>>, NormalsZ |-> <<>>,
     ColorsR |-> <<>>, ColorsG |-> <<>>, ColorsB |-> <<>>, XYZMapping |-> <<>>]

\* The locals of a call, before its first statement after the three bulk copies.
ConvertEntry(pointCloud) ==
    [pc |-> "count", pointCloud |-> pointCloud, numberOfValidPoints |-> 0,
     tuples |-> EmptyTuples, validPointIndex |-> 0, i |-> 0, j |-> 0]

\* Lines 35-38.
ConvertCount(L) ==
    [L EXCEPT !.numberOfValidPoints = NumberOfValidPoints(L.pointCloud),
              !.pc = "presize"]

\* Lines 47-61: the tuples get their sizes, unless the first index is refused.
ConvertPresize(L) ==
    LET k == L.numberOfValidPoints
        zeros == Resized(k - 1, Num(0), Num(0))
        longs == Resized(k - 1, 0, 0)
        mapping == Resized(2 * k + 2 - 1, 0, 0)
    IN  IF ~CanResize(k - 1)
        THEN [L EXCEPT !.pc = "HException"]
        ELSE [L EXCEPT !.tuples =
                          [PointsX |-> zeros, PointsY |-> zeros, PointsZ |-> zeros,
                           NormalsX |-> zeros, NormalsY |-> zeros, NormalsZ |-> zeros,
                           ColorsR |-> longs, ColorsG |-> longs, ColorsB |-> longs,
                           XYZMapping |-> [[mapping EXCEPT ![0] = L.pointCloud.width]
                                              EXCEPT ![1] = L.pointCloud.height]],
                       !.validPointIndex = 0,
                       !.i = 0,
                       !.j = 0,
                       !.pc = IF 0 < L.pointCloud.height THEN "cell" ELSE "construct"]

\* if(!isnan(point.x))
CellIsCopied(point) == ~isnan(point.x)

\* if(!isnan(normal.x))
NormalIsCopied(normal) == ~isnan(normal.x)

\* ++j, and ++i at the end of a row.
NextCell(L) ==
    IF L.j + 1 < L.pointCloud.width
    THEN [L EXCEPT !.j = L.j + 1]
    ELSE IF L.i + 1 < L.pointCloud.height
         THEN [L EXCEPT !.i = L.i + 1, !.j = 0]
         ELSE [L EXCEPT !.i = L.i + 1, !.j = 0, !.pc = "construct"]

\* Lines 67-90: the loop body at cell (i, j). A write through DArr() or LArr()
\* to an index the array does not hold has no defined outcome.
ConvertCell(L) ==
    LET point == L.pointCloud.pointsXYZ[<<L.i, L.j>>]
        normal == L.pointCloud.normalsXYZ[<<L.i, L.j>>]
        color == L.pointCloud.colorsRGBA[<<L.i, L.j>>]
        n == L.validPointIndex
        k == L.numberOfValidPoints
        t == L.tuples
        copied ==
            [t EXCEPT !.PointsX[n] = point.x, !.PointsY[n] = point.y, !.PointsZ[n] = point.z,
                      !.ColorsR[n] = color.r, !.ColorsG[n] = color.g, !.ColorsB[n] = color.b,
                      !.XYZMapping[2 + n] = L.i, !.XYZMapping[2 + k + n] = L.j]
        withNormal ==
            IF NormalIsCopied(normal)
            THEN [copied EXCEPT !.NormalsX[n] = normal.x, !.NormalsY[n] = normal.y,
                                !.NormalsZ[n] = normal.z]
            ELSE copied
    IN  IF ~CellIsCopied(point)
        THEN NextCell(L)
        ELSE IF ~(InArray(t.PointsX, n) /\ InArray(t.XYZMapping, 2 + k + n))
             THEN [L EXCEPT !.pc = "undefined"]
             ELSE NextCell([L EXCEPT !.tuples = withNormal, !.validPointIndex = n + 1])

\* Lines 97-145: the object model is built from the tuples and returned.
ConvertConstruct(L) == [L EXCEPT !.pc = "returned"]

ConvertStep(L) ==
    CASE L.pc = "count" -> ConvertCount(L)
      [] L.pc = "presize" -> ConvertPresize(L)
      [] L.pc = "cell" -> ConvertCell(L)
      [] L.pc = "construct" -> ConvertConstruct(L)
      [] OTHER -> L

RECURSIVE ConvertRun(_)
ConvertRun(L) ==
    IF L.pc \in {"returned", "HException", "undefined"} THEN L ELSE ConvertRun(ConvertStep(L))

\* The whole call.
zividToHalconPointCloud(pointCloud) == ConvertRun(ConvertEntry(pointCloud))

(***************************************************************************)
(* SpecConvert: one call of zividToHalconPointCloud on a grid built by     *)
(* hand, a statement at a time.                                            *)
(***************************************************************************)
InitConvert ==
    /\ program = "none"
    /\ pc = "idle"
    /\ ProcessInit
    /\ DriverIdle
    /\ HalconIdle
    /\ StatsIdle
    /\ \E g \in PointClouds(MaxWidth, MaxHeight, SyntheticXYZ) : cv = ConvertEntry(g)

ConvertAt(at) ==
    /\ program = "none"
    /\ cv.pc = at
    /\ cv' = ConvertStep(cv)
    /\ UNCHANGED <<program, pc, processVars, driverVars, halconVars, st>>

CountStep == ConvertAt("count")

PresizeStep == ConvertAt("presize")

CellStep == ConvertAt("cell")

ConstructStep == ConvertAt("construct")

NextConvert ==
    \/ CountStep
    \/ PresizeStep
    \/ CellStep
    \/ ConstructStep

SpecConvert == InitConvert /\ [][NextConvert]_vars

(***************************************************************************)
(* The single-camera program: capture, convert, save, 25 times.            *)
(***************************************************************************)
InitCaptureHalcon ==
    /\ program = "CaptureHalcon"
    /\ pc = "licenseCheck"
    /\ ProcessInit
    /\ DriverIdle
    /\ HalconIdle
    /\ ConvertIdle
    /\ StatsIdle

\* A failing statement that is run again instead of leaving the try block.
ThrownAndRetried(e) ==
    /\ exc' = e
    /\ pc' = pc
    /\ frame' = frame
    /\ model3D' = model3D

\* Where control is after a statement of the try block has thrown e: the
\* locals of the block are destroyed and the handlers are tried.
Thrown(e) ==
    /\ exc' = e
    /\ pc' = "catch"
    /\ frame' = "none"
    /\ model3D' = "none"

\* HalconCpp::HSystem::GetSystem("is_license_valid")
LicenseCheck ==
    /\ program = "CaptureHalcon"
    /\ pc = "licenseCheck"
    /\ pc' = "connectCamera"
    /\ UNCHANGED <<program, processVars, driverVars, halconVars, cv, st>>

LicenseCheckThrows ==
    /\ program = "CaptureHalcon"
    /\ pc = "licenseCheck"
    /\ Thrown("HException")
    /\ UNCHANGED <<program, cerr, keypress, exitStatus, driverVars, iter, fileWrites, cv, st>>

\* Zivid::Application zivid; zivid.connectCamera(); the settings; i = 0.
ConnectCamera ==
    /\ program = "CaptureHalcon"
    /\ pc = "connectCamera"
    /\ iter' = 0
    /\ pc' = IF 0 < NumCaptures THEN "capture" ELSE "return"
    /\ UNCHANGED <<program, processVars, driverVars, frame, model3D, fileWrites, cv, st>>

ConnectCameraThrows ==
    /\ program = "CaptureHalcon"
    /\ pc = "connectCamera"
    /\ Thrown("std::exception")
    /\ UNCHANGED <<program, cerr, keypress, exitStatus, driverVars, iter, fileWrites, cv, st>>

\* camera.capture(settings) and frame.pointCloud()
Capture ==
    /\ program = "CaptureHalcon"
    /\ pc = "capture"
    /\ frame' \in CameraPointClouds
    /\ pc' = "convert"
    /\ UNCHANGED <<program, processVars, driverVars, iter, model3D, fileWrites, cv, st>>

CaptureThrows ==
    /\ program = "CaptureHalcon"
    /\ pc = "capture"
    /\ Thrown("std::exception")
    /\ UNCHANGED <<program, cerr, keypress, exitStatus, driverVars, iter, fileWrites, cv, st>>

\* const auto halconPointCloud = zividToHalconPointCloud(zividPointCloud)
Convert ==
    /\ program = "CaptureHalcon"
    /\ pc = "convert"
    /\ LET call == zividToHalconPointCloud(frame)
       IN  CASE call.pc = "returned" ->
                   /\ model3D' = call.tuples
                   /\ pc' = "save"
                   /\ UNCHANGED <<exc, frame>>
             [] call.pc = "HException" -> Thrown("HException")
             [] OTHER ->
                   /\ pc' = "undefined"
                   /\ UNCHANGED <<exc, frame, model3D>>
    /\ UNCHANGED <<program, cerr, keypress, exitStatus, driverVars, iter, fileWrites, cv, st>>

\* savePointCloud(halconPointCloud, "Zivid3D.ply"), the end of the loop body, i++.
Save ==
    /\ program = "CaptureHalcon"
    /\ pc = "save"
    /\ fileWrites' = fileWrites + 1
    /\ frame' = "none"
    /\ model3D' = "none"
    /\ iter' = iter + 1
    /\ pc' = IF iter + 1 < NumCaptures THEN "capture" ELSE "return"
    /\ UNCHANGED <<program, processVars, driverVars, cv, st>>

\* WriteObjectModel3d fails.
SaveThrows ==
    /\ program = "CaptureHalcon"
    /\ pc = "save"
    /\ Thrown("HException")
    /\ UNCHANGED <<program, cerr, keypress, exitStatus, driverVars, iter, fileWrites, cv, st>>

\* return EXIT_SUCCESS
HalconReturn ==
    /\ program = "CaptureHalcon"
    /\ pc = "return"
    /\ exitStatus' = <<EXIT_SUCCESS>>
    /\ pc' = "exited"
    /\ UNCHANGED <<program, exc, cerr, keypress, driverVars, halconVars, cv, st>>

\* Both handlers wait for the enter key.
PressEnterAlways(e) == TRUE

\* Which handler waits for the enter key: catch(const std::exception &) does,
\* catch(HalconCpp::HException &) does not.
PressEnterToExit(e) == e = "std::exception"

\* The handler that matches prints "Error: ..." to std::cerr; the first
\* returns EXIT_FAILURE at once, the second prompts and calls std::cin.get().
HalconCatch ==
    /\ program = "CaptureHalcon"
    /\ pc = "catch"
    /\ cerr' = Append(cerr, "Error: " \o exc)
    /\ IF PressEnterToExit(exc)
          THEN /\ pc' = "waitKey"
               /\ UNCHANGED exitStatus
          ELSE /\ pc' = "exited"
               /\ exitStatus' = <<EXIT_FAILURE>>
    /\ UNCHANGED <<program, exc, keypress, driverVars, halconVars, cv, st>>

\* std::cin.get() returns; return EXIT_FAILURE.
HalconKeyPressed ==
    /\ program = "CaptureHalcon"
    /\ pc = "waitKey"
    /\ keypress' = TRUE
    /\ exitStatus' = <<EXIT_FAILURE>>
    /\ pc' = "exited"
    /\ UNCHANGED <<program, exc, cerr, driverVars, halconVars, cv, st>>

CaptureHalconNext ==
    \/ LicenseCheck
    \/ LicenseCheckThrows
    \/ ConnectCamera
    \/ ConnectCameraThrows
    \/ Capture
    \/ CaptureThrows
    \/ Convert
    \/ Save
    \/ SaveThrows
    \/ HalconReturn
    \/ HalconCatch
    \/ HalconKeyPressed

(***************************************************************************)
(* The statistics stage of the driver.  Here the tables hold durations:    *)
(* whole numbers of nanoseconds (Duration is std::chrono::nanoseconds).    *)
(***************************************************************************)
MaxDuration == 2

\* captureInThread, lines 120-128: the five durations between its clock
\* readings, when the four stages take a, b, c and d.
MeasuredTimes(a, b, c, d) ==
    [captureDuration |-> a, pointCloudDuration |-> b, processDuration |-> c,
     copyDuration |-> d, totalDuration |-> a + b + c + d]

\* capture2DInThread, lines 85-91.
Measured2DTimes(a, b) ==
    [captureDuration |-> a, imageRGBADuration |-> b, totalDuration |-> a + b]

\* MeasuredTimes &operator+=(const MeasuredTimes &t), and the one of
\* Measured2DTimes: every field of t is added to the field.
PlusAssign(self, t) == [f \in DOMAIN self |-> self[f] + t[f]]

\* The float f of operator/= as the rep of Duration (a 64-bit integer), which
\* is what duration::operator/=(const rep &) divides by.
FloatToRep(f) == f

\* A division that rounds to the nearest nanosecond.
DurationDivideRounded(d, f) == (2 * d + FloatToRep(f)) \div (2 * FloatToRep(f))

\* duration /= f: the division of the integer count of nanoseconds.
DurationDivide(d, f) == d \div FloatToRep(f)

\* MeasuredTimes &operator/=(float f), and the one of Measured2DTimes.
DivideAssign(self, f) == [fld \in DOMAIN self |-> DurationDivide(self[fld], f)]

\* The times of a task whose stages took u, u + 1, 2u and 1 nanoseconds.
SampleTimes(u) == MeasuredTimes(u, u + 1, 2 * u, 1)

SampleTimes2D(u) == Measured2DTimes(u + 1, 2 * u)

\* The stage unit of camera j in round i of a run in which camera j takes
\* base + j, and one more in the first `slow` rounds.
SampleUnit(i, j, base, slow) == base + j + (IF i < slow THEN 1 ELSE 0)

InitStats ==
    /\ program = "none"
    /\ pc = "idle"
    /\ ProcessInit
    /\ HalconIdle
    /\ ConvertIdle
    /\ round = 0
    /\ cam = 0
    /\ futures = NoFutures
    /\ inFlight = <<>>
    /\ numCameras \in 1..MaxCameras
    /\ \E base \in 0..MaxDuration : \E slow \in 0..numFrames3D :
          /\ allTimes = [i \in 0..(numFrames3D - 1) |->
                           [j \in Cameras |-> SampleTimes(SampleUnit(i, j, base, slow))]]
          /\ allTimes2D = [i \in 0..(numFrames3D - 1) |->
                             [j \in Cameras |-> SampleTimes2D(SampleUnit(i, j, base, slow))]]
    /\ st = [pc |-> "sum", i |-> 0, j |-> 0,
             averageTimes |-> [j \in Cameras |-> MeasuredTimes(0, 0, 0, 0)],
             averageTimes2D |-> [j \in Cameras |-> Measured2DTimes(0, 0)]]

\* The next (i, j) of the two nested loops, or `after` when they end.
NextSlot(s, after) ==
    IF s.j + 1 < numCameras
    THEN [s EXCEPT !.j = s.j + 1]
    ELSE IF s.i + 1 < numFrames3D
         THEN [s EXCEPT !.i = s.i + 1, !.j = 0]
         ELSE [s EXCEPT !.i = 0, !.j = 0, !.pc = after]

\* The next avg of a loop over the averages, or `after` when it ends.
NextAverage(s, after) ==
    IF s.j + 1 < numCameras
    THEN [s EXCEPT !.j = s.j + 1]
    ELSE [s EXCEPT !.j = 0, !.pc = after]

\* averageTimes[j] += allTimes[i][j]
Sum3D ==
    /\ st.pc = "sum"
    /\ st' = NextSlot([st EXCEPT !.averageTimes[st.j] =
                                     PlusAssign(@, allTimes[st.i][st.j])], "divide")
    /\ UNCHANGED <<program, pc, processVars, driverVars, halconVars, cv>>

\* avg /= numFrames3D
Divide3D ==
    /\ st.pc = "divide"
    /\ st' = NextAverage([st EXCEPT !.averageTimes[st.j] =
                                        DivideAssign(@, numFrames3D)], "sum2D")
    /\ UNCHANGED <<program, pc, processVars, driverVars, halconVars, cv>>

\* averageTimes2D[j] += allTimes2D[i][j]
Sum2D ==
    /\ st.pc = "sum2D"
    /\ st' = NextSlot([st EXCEPT !.averageTimes2D[st.j] =
                                     PlusAssign(@, allTimes2D[st.i][st.j])], "divide2D")
    /\ UNCHANGED <<program, pc, processVars, driverVars, halconVars, cv>>

\* avg2D /= numFrames3D
Divide2D ==
    /\ st.pc = "divide2D"
    /\ st' = NextAverage([st EXCEPT !.averageTimes2D[st.j] =
                                        DivideAssign(@, numFrames3D)], "print")
    /\ UNCHANGED <<program, pc, processVars, driverVars, halconVars, cv>>

\* The two loops that print the averages.
PrintAverages ==
    /\ st.pc = "print"
    /\ st' = [st EXCEPT !.pc = "done"]
    /\ UNCHANGED <<program, pc, processVars, driverVars, halconVars, cv>>

NextStats ==
    \/ Sum3D
    \/ Divide3D
    \/ Sum2D
    \/ Divide2D
    \/ PrintAverages

SpecStats == InitStats /\ [][NextStats]_vars

Init == InitMultiCamera \/ InitCaptureHalcon

Next == MultiCameraNext \/ CaptureHalconNext

Spec == Init /\ [][Next]_vars

(***************************************************************************)
(* The multi-camera driver with its scheduling.  main() is one thread that *)
(* keeps running: whenever its next statement can be executed, it is.  It  *)
(* stands still only inside future.wait(), future.get() and ~future(),     *)
(* where the statement cannot be executed until the task has finished.     *)
(* std::launch::async gives every task a thread of its own, which runs     *)
(* until the task has returned, thrown, or stopped for good inside the     *)
(* camera library.  Nothing makes the user press enter.                    *)
(***************************************************************************)
MainStep ==
    \/ Connect
    \/ ConnectThrows
    \/ WarmupLaunch
    \/ WarmupLaunchDone
    \/ WarmupWait
    \/ WarmupRoundEnd
    \/ Launch2D
    \/ Launch2DDone
    \/ Get2D
    \/ Get2DThrows
    \/ Get2DDone
    \/ Launch3D
    \/ Launch3DDone
    \/ Get3D
    \/ Get3DThrows
    \/ RoundEnd
    \/ Unwind
    \/ Statistics
    \/ MultiCatch

TaskStep(v, k) == TaskReturns(v, k) \/ TaskThrows(v, k) \/ TaskBlocks(v, k)

Scheduling ==
    /\ WF_vars(MainStep)
    /\ \A v \in {"warmupTimes", "times2D", "times"} : \A k \in 0..(MaxCameras - 1) :
          WF_vars(TaskStep(v, k))

SpecMultiCamera == InitMultiCamera /\ [][MultiCameraNext]_vars /\ Scheduling

(***************************************************************************)
(* Properties of zividToHalconPointCloud (SpecConvert).                    *)
(***************************************************************************)
ConvertEnded == cv.pc \in {"returned", "HException", "undefined"}

\* The cells of the grid whose coordinate is not NaN.
ValidCells(g) == {c \in Cells(g.width, g.height) : ~isNaN(g.pointsXYZ[c])}

\* How many valid cells precede cell c in row-major scan order.
RankOf(g, c) ==
    Cardinality({d \in ValidCells(g) :
                    d[1] * g.width + d[2] < c[1] * g.width + c[2]})

\* C1: for every grid with k valid coordinate entries, the compaction pass
\* ends with point, color and normal arrays of length exactly k, and for every
\* i in 0..k-1 the mapping array holds at 2+i the row and at 2+k+i the column
\* of the i-th valid point in row-major scan order.
C1_CompactionLengthsAndMapping ==
    ConvertEnded =>
        LET g == cv.pointCloud
            k == Cardinality(ValidCells(g))
            t == cv.tuples
        IN  /\ cv.pc = "returned"
            /\ \A a \in {"PointsX", "PointsY", "PointsZ", "NormalsX", "NormalsY",
                         "NormalsZ", "ColorsR", "ColorsG", "ColorsB"} : Size(t[a]) = k
            /\ Size(t.XYZMapping) = 2 * k + 2
            /\ \A c \in ValidCells(g) :
                  /\ t.XYZMapping[2 + RankOf(g, c)] = c[1]
                  /\ t.XYZMapping[2 + k + RankOf(g, c)] = c[2]

\* C5: no NaN is ever stored in any component of the output normal arrays,
\* and when the call returns, every valid point whose normal is NaN has kept
\* the zero the normal arrays were initialized with.
C5_NoNaNInNormals ==
    LET g == cv.pointCloud
        t == cv.tuples
    IN  /\ \A a \in {"NormalsX", "NormalsY", "NormalsZ"} :
              \A n \in DOMAIN t[a] : ~isnan(t[a][n])
        /\ cv.pc = "returned" =>
              \A c \in ValidCells(g) :
                  (isNaN(g.normalsXYZ[c]) /\ RankOf(g, c) \in DOMAIN t.NormalsX) =>
                      /\ t.NormalsX[RankOf(g, c)] = Num(0)
                      /\ t.NormalsY[RankOf(g, c)] = Num(0)
                      /\ t.NormalsZ[RankOf(g, c)] = Num(0)

\* C10: every index the call uses on an output array is in range: the
\* pre-sizing index k-1 is not negative, every write index validPointIndex in
\* the loop is below k, and validPointIndex is k when the loop has ended,
\* where k is the count that count_if computed.
C10_IndicesInRange ==
    LET k == cv.numberOfValidPoints
        g == cv.pointCloud
    IN  /\ cv.pc = "presize" => k - 1 >= 0
        /\ (cv.pc = "cell" /\ CellIsCopied(g.pointsXYZ[<<cv.i, cv.j>>])) =>
              /\ cv.validPointIndex < k
              /\ 2 + k + cv.validPointIndex < 2 * k + 2
        /\ cv.pc \in {"construct", "returned"} => cv.validPointIndex = k

(***************************************************************************)
(* Properties of the multi-camera driver (Spec).                           *)
(***************************************************************************)
Multi == program = "MultiCamera"

AllIn(v, states) == \A k \in DOMAIN futures[v] : futures[v][k].state \in states

NoTaskInFlight == \A j \in DOMAIN inFlight : inFlight[j] = 0

\* The tasks issued in the iteration of the round loop main() is in.
TasksIssuedThisRound ==
    Size(futures.warmupTimes) + Size(futures.times2D) + Size(futures.times)

\* C2 as stated: when a round has been collected, warmup or measured, exactly
\* n tasks were issued in it.
C2_ExactlyNTasksPerRound ==
    (Multi /\ pc \in {"warmupWait", "get3D"} /\ cam = numCameras) =>
        TasksIssuedThisRound = numCameras

\* C2 as amended: a warmup round issues exactly n tasks; a measured round
\* issues exactly n 2D tasks and then exactly n 3D tasks, 2n in all; a launch
\* loop starts only when no task is in flight, and the 3D tasks are launched
\* only after every 2D result has been read.
C2_NTasksPerPhaseWithBarrier ==
    Multi =>
        /\ pc = "warmupLaunch" =>
              /\ Size(futures.warmupTimes) = cam
              /\ TasksIssuedThisRound = cam
        /\ pc = "warmupWait" => TasksIssuedThisRound = numCameras
        /\ (pc = "warmupWait" /\ cam = numCameras) =>
              /\ Size(futures.warmupTimes) = numCameras
              /\ AllIn("warmupTimes", {"ready", "exception"})
        /\ pc = "launch2D" =>
              /\ Size(futures.times2D) = cam
              /\ TasksIssuedThisRound = cam
        /\ pc = "get2D" =>
              /\ Size(futures.times2D) = numCameras
              /\ TasksIssuedThisRound = numCameras
        /\ pc = "launch3D" =>
              /\ Size(futures.times2D) = numCameras
              /\ AllIn("times2D", {"retrieved"})
              /\ Size(futures.times) = cam
        /\ pc = "get3D" =>
              /\ Size(futures.times2D) = numCameras
              /\ AllIn("times2D", {"retrieved"})
              /\ Size(futures.times) = numCameras
              /\ TasksIssuedThisRound = 2 * numCameras
        /\ (pc = "get3D" /\ cam = numCameras) => AllIn("times", {"retrieved"})
        /\ (pc \in {"warmupLaunch", "launch2D", "launch3D"} /\ cam = 0) => NoTaskInFlight

\* A measured round of two cameras is collected: four tasks were issued.
C2_Witness ==
    /\ Multi
    /\ pc = "get3D"
    /\ cam = numCameras
    /\ numCameras = 2
    /\ round = numFrames3D - 1
    /\ TasksIssuedThisRound = 4

SomeTaskThrew ==
    \E v \in DOMAIN futures : \E k \in DOMAIN futures[v] : futures[v][k].state = "exception"

\* C3: once a capture task has ended with an exception, in a warmup round, a
\* 2D phase or a 3D phase, main() starts no further round and does not reach
\* the statistics.
C3_TaskExceptionAbortsRun ==
    [][(Multi /\ SomeTaskThrew /\ pc' # pc) =>
          pc' \notin {"warmupLaunch", "launch2D", "statistics"}]_vars

TablesBuilt == DOMAIN allTimes # {}

\* C4: every slot [i][j] of allTimes and allTimes2D holds either its initial
\* value or the times returned by the task launched on camera j in round i;
\* a step writes at most one slot, and only when main() has read the result
\* of that task; when the rounds are over, every slot [i][j] holds the times
\* of the i-th run on the j-th camera.
C4_SlotsHoldTheirOwnTask ==
    /\ [](Multi /\ TablesBuilt =>
            \A i \in 0..(numFrames3D - 1) : \A j \in Cameras :
               /\ allTimes[i][j] \in {ZeroTimes, TimesOf("captureInThread", i, j)}
               /\ allTimes2D[i][j] \in {ZeroTimes, TimesOf("capture2DInThread", i, j)}
               /\ pc = "statistics" =>
                     /\ allTimes[i][j] = TimesOf("captureInThread", i, j)
                     /\ allTimes2D[i][j] = TimesOf("capture2DInThread", i, j))
    /\ [][(Multi /\ TablesBuilt) =>
             /\ allTimes' # allTimes =>
                   /\ pc = "get3D"
                   /\ futures.times[cam].state = "ready"
                   /\ futures.times[cam].camera = cam
                   /\ \A i \in 0..(numFrames3D - 1) : \A j \in Cameras :
                         allTimes'[i][j] # allTimes[i][j] => (i = round /\ j = cam)
             /\ allTimes2D' # allTimes2D =>
                   /\ pc = "get2D"
                   /\ futures.times2D[cam].state = "ready"
                   /\ futures.times2D[cam].camera = cam
                   /\ \A i \in 0..(numFrames3D - 1) : \A j \in Cameras :
                         allTimes2D'[i][j] # allTimes2D[i][j] => (i = round /\ j = cam)]_vars

\* The run of two cameras is complete and the last slot holds the last task.
C4_Witness ==
    /\ Multi
    /\ pc = "statistics"
    /\ numCameras = 2
    /\ allTimes[numFrames3D - 1][1] = TimesOf("captureInThread", numFrames3D - 1, 1)
    /\ allTimes2D[numFrames3D - 1][1] = TimesOf("capture2DInThread", numFrames3D - 1, 1)

\* C9: at most one capture task is in flight per camera, and the top-level
\* handler runs, and main() ends, only when no launched task is in flight.
C9_OneTaskPerCamera ==
    Multi =>
        /\ \A j \in DOMAIN inFlight : inFlight[j] <= 1
        /\ pc \in {"catch", "waitKey", "exited", "statistics"} => NoTaskInFlight

\* The exception of a task is on its way to the handler while the task of the
\* other camera is still capturing.
C9_Witness ==
    /\ Multi
    /\ pc = "unwind"
    /\ \E j \in DOMAIN inFlight : inFlight[j] = 1

(***************************************************************************)
(* Properties of the process boundary of both programs (Spec).             *)
(***************************************************************************)
\* C7: a run that has failed has written a message to the error stream and
\* exits with a non-zero status; it waits for a key before exiting exactly
\* when the exception is not one of the object-model library.
C7_FailureSurface ==
    /\ (pc = "exited" /\ exc # "none") =>
          /\ Len(cerr) >= 1
          /\ Len(exitStatus) = 1
          /\ exitStatus[1] # 0
          /\ keypress <=> exc # "HException"
    /\ pc = "waitKey" => (exc = "std::exception" /\ Len(cerr) >= 1 /\ exitStatus = <<>>)
    /\ keypress => exc = "std::exception"
    /\ exc # "none" => pc \in {"unwind", "catch", "waitKey", "exited"}
    /\ (pc = "exited" /\ exc = "none") => exitStatus = <<EXIT_SUCCESS>>

\* The single-camera program has ended on an exception of the object-model
\* library: the message is out and no key was waited for.
C7_Witness ==
    /\ program = "CaptureHalcon"
    /\ pc = "exited"
    /\ exc = "HException"
    /\ keypress = FALSE
    /\ Len(cerr) = 1
    /\ exitStatus = <<EXIT_FAILURE>>

\* C8: in the single-camera program, once a step has failed, no capture,
\* conversion or save is performed any more, the loop does not advance, and
\* control is in the top-level handler or past it.
C8_FailureAbortsRun ==
    /\ []((program = "CaptureHalcon" /\ exc # "none") =>
             pc \in {"catch", "waitKey", "exited"})
    /\ [][(program = "CaptureHalcon" /\ exc # "none") =>
             /\ iter' = iter
             /\ frame' = frame
             /\ model3D' = model3D
             /\ fileWrites' = fileWrites
             /\ exc' = exc
             /\ pc' \in {"waitKey", "exited"}]_vars

\* The conversion of the fourth frame failed after three files were written.
C8_Witness ==
    /\ program = "CaptureHalcon"
    /\ pc = "exited"
    /\ exc = "HException"
    /\ iter = 3
    /\ fileWrites = 3

(***************************************************************************)
(* Properties of the statistics (SpecStats).                               *)
(***************************************************************************)
RECURSIVE SumOver(_, _, _, _)
\* The sum of field f of table[i][j] over the rounds 0..n-1.
SumOver(table, j, f, n) ==
    IF n = 0 THEN 0 ELSE table[n - 1][j][f] + SumOver(table, j, f, n - 1)

Fields3D == {"captureDuration", "pointCloudDuration", "processDuration",
             "copyDuration", "totalDuration"}

Fields2D == {"captureDuration", "imageRGBADuration", "totalDuration"}

\* C6 as stated: every average is the exact arithmetic mean of the field over
\* the measured rounds.
C6_AverageIsExactMean ==
    st.pc = "done" =>
        \A j \in Cameras :
            /\ \A f \in Fields3D :
                  st.averageTimes[j][f] * numFrames3D = SumOver(allTimes, j, f, numFrames3D)
            /\ \A f \in Fields2D :
                  st.averageTimes2D[j][f] * numFrames3D = SumOver(allTimes2D, j, f, numFrames3D)

\* C6 as amended: every average is the sum of the field over the measured
\* rounds divided by their number and truncated to a whole nanosecond.
C6_AverageIsTruncatedMean ==
    st.pc = "done" =>
        \A j \in Cameras :
            /\ \A f \in Fields3D :
                  st.averageTimes[j][f] = SumOver(allTimes, j, f, numFrames3D) \div numFrames3D
            /\ \A f \in Fields2D :
                  st.averageTimes2D[j][f] =
                      SumOver(allTimes2D, j, f, numFrames3D) \div numFrames3D

\* The averages are out, and a sum was not a multiple of the number of rounds.
C6_Witness ==
    /\ st.pc = "done"
    /\ numCameras = 2
    /\ SumOver(allTimes, 1, "captureDuration", numFrames3D) % numFrames3D # 0
    /\ st.averageTimes[1].captureDuration >= 1

(***************************************************************************)
(* Termination of the multi-camera driver (SpecMultiCamera).               *)
(***************************************************************************)
SomeTaskBlocked ==
    \E v \in DOMAIN futures : \E k \in DOMAIN futures[v] : futures[v][k].blocked

\* Vector v holds one future per camera and each is in one of the states.
FullyIn(v, states) == Size(futures[v]) = numCameras /\ AllIn(v, states)

\* The slots of round i hold the times of the tasks of round i.
RowCollected(table, kind, i) == \A j \in Cameras : table[i][j] = TimesOf(kind, i, j)

\* main() moves from one stage to the next only in the order of the source:
\* rounds are counted from 0 one by one, a collecting loop is entered when one
\* task per camera has been launched and left when every one of them has been
\* waited for or read.
StageOrder ==
    pc' # pc =>
       /\ pc = "connect" => pc' \in {"warmupLaunch", "catch"} /\ round' = 0
       /\ pc = "warmupLaunch" =>
             pc' = "warmupWait" /\ round' = round /\ Size(futures.warmupTimes) = numCameras
       /\ pc = "warmupWait" =>
             /\ FullyIn("warmupTimes", {"ready", "exception"})
             /\ \/ pc' = "warmupLaunch" /\ round' = round + 1 /\ round' < NumWarmup
                \/ pc' = "launch2D" /\ round + 1 = NumWarmup /\ round' = 0
       /\ pc = "launch2D" =>
             pc' = "get2D" /\ round' = round /\ FullyIn("times2D", {"running", "ready", "exception"})
       /\ pc = "get2D" =>
             \/ /\ pc' = "launch3D"
                /\ round' = round
                /\ FullyIn("times2D", {"retrieved"})
                /\ RowCollected(allTimes2D, "capture2DInThread", round)
             \/ pc' = "unwind"
       /\ pc = "launch3D" =>
             /\ pc' = "get3D"
             /\ round' = round
             /\ FullyIn("times2D", {"retrieved"})
             /\ FullyIn("times", {"running", "ready", "exception"})
       /\ pc = "get3D" =>
             \/ /\ FullyIn("times", {"retrieved"})
                /\ RowCollected(allTimes, "captureInThread", round)
                /\ round' = round + 1
                /\ \/ pc' = "launch2D" /\ round' < numFrames3D
                   \/ pc' = "statistics" /\ round' = numFrames3D
             \/ pc' = "unwind"
       /\ pc = "statistics" => pc' = "exited"

\* The statistics have been computed and main() has returned 0.
StatisticsDone == pc = "exited" /\ exitStatus = <<EXIT_SUCCESS>>

\* C11: when the cameras are connected and every capture task returns without
\* throwing, main() terminates with the statistics computed, after warmup
\* rounds 0..4 and then measured rounds 0..29, each measured round being a 2D
\* phase read in full before a 3D phase read in full, the statistics being
\* reached from the end of round 29 only; once a task has stopped for good,
\* main() never reaches the statistics and never exits.
C11_TerminatesAfterAllRounds ==
    /\ [][StageOrder]_vars
    /\ ([](~SomeTaskThrew /\ ~SomeTaskBlocked) /\ <>(pc = "warmupLaunch")) => <>StatisticsDone
    /\ [](SomeTaskBlocked => [](pc \notin {"statistics", "exited"}))

\* The statistics were computed for two cameras after the last measured round.
C11_Witness ==
    /\ StatisticsDone
    /\ numCameras = 2
    /\ round = numFrames3D
    /\ RowCollected(allTimes, "captureInThread", numFrames3D - 1)
    /\ RowCollected(allTimes2D, "capture2DInThread", numFrames3D - 1)

\* A task of the last 3D phase has stopped for good and main() waits for it.
C11_WitnessBlocked ==
    /\ pc = "get3D"
    /\ round = numFrames3D - 1
    /\ SomeTaskBlocked

====
